---- MODULE Spec2Model ----
(***************************************************************************)
(* A model of src/commute.rs of git-absorb: the hunk commutation core.      *)
(*                                                                         *)
(* A usize value is represented by its two's complement reading as an i64  *)
(* (the value `x as i64`): a small natural stands for itself, and -k       *)
(* stands for the wrapped value 2^64 - k.  Addition and subtraction on the *)
(* representatives are exact modulo 2^64 as long as every magnitude stays  *)
(* below 2^63, which the bounds of the model guarantee; the unsigned order *)
(* is ULe/UGt below.  An overflowing usize operation panics in a build     *)
(* with overflow checks (debug) and wraps in a build without (release):    *)
(* every call draws `checks`, that build choice.  A call's outcome depends *)
(* on it only when the call overflows, and commute on parser-made hunks    *)
(* never does (C8_AnchorsByShape), so the draws of one run are consistent  *)
(* with a single build.                                                    *)
(***************************************************************************)
EXTENDS Integers, Sequences, FiniteSets

\* Bounds of the model.
MaxStart == 3
MaxLen == 1

\* The line contents hunks are built from; "foo" has no line terminator.
Lines == {"bar\n", "foo"}

VARIABLES first, second, pc, out, swapped, back

vars == <<first, second, pc, out, swapped, back>>

----------------------------------------------------------------------------
\* Data: owned::Block and owned::Hunk as the source uses them.

Block(s, l, t) == [start |-> s, lines |-> l, trailing_newline |-> t]

Hunk(a, r) == [added |-> a, removed |-> r]

RECURSIVE SeqsUpTo(_)
SeqsUpTo(n) ==
    IF n = 0 THEN {<<>>}
    ELSE LET shorter == SeqsUpTo(n - 1)
         IN shorter \cup {Append(s, l) : s \in {t \in shorter : Len(t) = n - 1}, l \in Lines}

\* A block as a patch parser hands it over: line numbers are 1-based, an
\* empty block may carry the start 0, and the block's last line is
\* newline-terminated unless it is the unterminated line.
TrailingNewline(l) == l = <<>> \/ l[Len(l)] # "foo"

Blocks ==
    {b \in {Block(s, l, TrailingNewline(l)) : s \in 0..MaxStart, l \in SeqsUpTo(MaxLen)} :
        b.lines = <<>> \/ b.start >= 1}

Hunks == {Hunk(a, r) : a \in Blocks, r \in Blocks}

----------------------------------------------------------------------------
\* usize arithmetic on the i64 representatives.

ULe(a, b) == IF (a < 0) = (b < 0) THEN a <= b ELSE b < 0

UGt(a, b) == ~ULe(a, b)

\* a - b in usize: overflows iff a < b in the unsigned order.
USubOverflows(a, b) == UGt(b, a)

\* a + n in usize for a small natural n: overflows iff it passes 2^64.
UAddOverflows(a, n) == a < 0 /\ a + n >= 0

----------------------------------------------------------------------------
\* anchors with the pure-insertion arm reading the removed block's start.
anchors_insertion_at_removed(hunk) ==
    LET removed_len == Len(hunk.removed.lines)
        added_len == Len(hunk.added.lines)
        rs == hunk.removed.start
        as == hunk.added.start
    IN  IF removed_len = 0 /\ added_len = 0
        THEN [t |-> <<0, 1, 0, 1>>, ovf |-> FALSE]
        ELSE IF added_len = 0
        THEN [t |-> <<rs - 1, rs + removed_len, rs - 1, rs>>,
              ovf |-> USubOverflows(rs, 1) \/ UAddOverflows(rs, removed_len)]
        ELSE IF removed_len = 0
        THEN [t |-> <<rs - 1, rs, rs - 1, rs + added_len>>,
              ovf |-> USubOverflows(rs, 1) \/ UAddOverflows(rs, added_len)]
        ELSE [t |-> <<rs - 1, rs + removed_len, as - 1, as + added_len>>,
              ovf |-> USubOverflows(rs, 1) \/ UAddOverflows(rs, removed_len)
                      \/ USubOverflows(as, 1) \/ UAddOverflows(as, added_len)]

\* fn anchors: the four anchors, and whether any of the usize operations
\* computing them overflowed.

anchors(hunk) ==
    LET removed_len == Len(hunk.removed.lines)
        added_len == Len(hunk.added.lines)
        rs == hunk.removed.start
        as == hunk.added.start
    IN  IF removed_len = 0 /\ added_len = 0
        THEN [t |-> <<0, 1, 0, 1>>, ovf |-> FALSE]
        ELSE IF added_len = 0
        THEN [t |-> <<rs - 1, rs + removed_len, rs - 1, rs>>,
              ovf |-> USubOverflows(rs, 1) \/ UAddOverflows(rs, removed_len)]
        ELSE IF removed_len = 0
        THEN [t |-> <<as - 1, as, as - 1, as + added_len>>,
              ovf |-> USubOverflows(as, 1) \/ UAddOverflows(as, added_len)]
        ELSE [t |-> <<rs - 1, rs + removed_len, as - 1, as + added_len>>,
              ovf |-> USubOverflows(rs, 1) \/ UAddOverflows(rs, removed_len)
                      \/ USubOverflows(as, 1) \/ UAddOverflows(as, added_len)]

\* fn uniform: every element equals the first; true of the empty sequence.
uniform(s) == \A i \in 1..Len(s) : s[i] = s[1]

----------------------------------------------------------------------------
\* fn commute.  The outcome is a record: tag "Err" (nonsensical hunk
\* ordering), "None" (Ok(None)), "Some" (Ok(Some(pair))) or "Panic"
\* (arithmetic overflow in a build with overflow checks); `pair` is the
\* returned tuple, `an` the anchors the call computed for above and below.

NoAnchors == <<>>

Outcome(tag, pair, an) == [tag |-> tag, pair |-> pair, an |-> an]

\* ordered with a strict comparison on the removed side.
ordered_strict_removed(f, s) ==
    ULe(f.added.start, s.added.start) = ~ULe(s.removed.start, f.removed.start)

\* lines 61-69: the two comparisons agree
ordered(f, s) ==
    ULe(f.added.start, s.added.start) = ULe(f.removed.start, s.removed.start)

first_above(f, s) == ULe(f.added.start, s.added.start)

\* lines 76-84
interleavable(above, below) ==
    IF above.added.lines = <<>> /\ below.added.lines = <<>>
    THEN uniform(above.removed.lines \o below.removed.lines)
    ELSE IF above.removed.lines = <<>> /\ below.removed.lines = <<>>
    THEN uniform(above.added.lines \o below.added.lines)
    ELSE FALSE

\* gap taking the first_above pair of anchors in both orders.
gap_one_side(fa, an_above, an_below) ==
    <<an_above.t[4], an_below.t[1]>>

\* lines 88-92: (above_anchor, below_anchor)
gap(fa, an_above, an_below) ==
    IF fa THEN <<an_above.t[4], an_below.t[1]>> ELSE <<an_above.t[2], an_below.t[3]>>

\* cannot_commute without the interleavable exception.
cannot_commute_on_overlap(above_anchor, below_anchor, il) ==
    UGt(above_anchor, below_anchor)

\* line 95
cannot_commute(above_anchor, below_anchor, il) ==
    UGt(above_anchor, below_anchor) /\ ~il

\* above_change_offset without the sign flip.
above_change_offset_unflipped(above, fa) ==
    Len(above.added.lines) - Len(above.removed.lines)

\* lines 101-102
above_change_offset(above, fa) ==
    (Len(above.added.lines) - Len(above.removed.lines)) * (IF fa THEN -1 ELSE 1)

\* shifted moving the added start only.
shifted_added_only(below, offset) ==
    [below EXCEPT !.added.start = @ + offset]

\* lines 100, 103-104: the clone of below with both starts moved
shifted(below, offset) ==
    [below EXCEPT !.added.start = @ + offset, !.removed.start = @ + offset]

\* slots in the order of the inputs.
slots_as_given(fa, above, below) ==
    IF fa THEN <<above, below>> ELSE <<below, above>>

\* lines 106-110
slots(fa, above, below) ==
    IF fa THEN <<below, above>> ELSE <<above, below>>

commute(f, s, checks) ==
    IF ~ordered(f, s)
    THEN Outcome("Err", <<>>, NoAnchors)
    ELSE LET fa == first_above(f, s)
             above == IF fa THEN f ELSE s
             below == IF fa THEN s ELSE f
             il == interleavable(above, below)
             an_above == anchors(above)
             an_below == anchors(below)
             an == <<an_above, an_below>>
             g == gap(fa, an_above, an_below)
         IN  IF checks /\ (an_above.ovf \/ an_below.ovf)
             THEN Outcome("Panic", <<>>, an)
             ELSE IF cannot_commute(g[1], g[2], il)
             THEN Outcome("None", <<>>, an)
             ELSE Outcome("Some",
                          slots(fa, above, shifted(below, above_change_offset(above, fa))),
                          an)

----------------------------------------------------------------------------
\* The calls.

NotCalled == Outcome("NotCalled", <<>>, NoAnchors)

Init ==
    /\ first \in Hunks
    /\ second \in Hunks
    /\ pc = "ready"
    /\ out = NotCalled
    /\ swapped = NotCalled
    /\ back = NotCalled

\* commute(&first, &second)
Commute ==
    /\ pc = "ready"
    /\ \E checks \in BOOLEAN : out' = commute(first, second, checks)
    /\ pc' = "commuted"
    /\ UNCHANGED <<first, second, swapped, back>>

\* commute(&second, &first): the same pair in the other application order
CommuteSwapped ==
    /\ pc = "commuted"
    /\ out.tag # "Panic"
    /\ \E checks \in BOOLEAN : swapped' = commute(second, first, checks)
    /\ pc' = "swapped"
    /\ UNCHANGED <<first, second, out, back>>

\* commute(&x, &y) on the pair (x, y) that commute(&first, &second) returned
CommuteBack ==
    /\ pc = "commuted"
    /\ out.tag = "Some"
    /\ \E checks \in BOOLEAN : back' = commute(out.pair[1], out.pair[2], checks)
    /\ pc' = "back"
    /\ UNCHANGED <<first, second, out, swapped>>

Next == Commute \/ CommuteSwapped \/ CommuteBack

Spec == Init /\ [][Next]_vars

----------------------------------------------------------------------------
\* Vocabulary of the properties, written from the hunks' fields.

Called == pc # "ready"

AllSame(s) == \A i, j \in 1..Len(s) : s[i] = s[j]

PureInsertion(h) == h.removed.lines = <<>>

PureDeletion(h) == h.added.lines = <<>>

Mixed(h) == h.removed.lines # <<>> /\ h.added.lines # <<>>

\* The hunk removes or adds at least one line.
Edits(h) == h.removed.lines # <<>> \/ h.added.lines # <<>>

\* Two insertions of copies of one line, or two deletions of copies of one.
SameLineRepeated(f, s) ==
    \/ /\ PureInsertion(f) /\ PureInsertion(s)
       /\ f.added.lines # <<>> /\ s.added.lines # <<>>
       /\ AllSame(f.added.lines \o s.added.lines)
    \/ /\ PureDeletion(f) /\ PureDeletion(s)
       /\ f.removed.lines # <<>> /\ s.removed.lines # <<>>
       /\ AllSame(f.removed.lines \o s.removed.lines)

WellFormed(h) ==
    /\ h.added.lines # <<>> => h.added.start >= 1
    /\ h.removed.lines # <<>> => h.removed.start >= 1

\* Both comparisons of the starts of (f, s) say that f comes first / second.
FirstEarlier(f, s) ==
    f.added.start <= s.added.start /\ f.removed.start <= s.removed.start

SecondEarlier(f, s) ==
    f.added.start > s.added.start /\ f.removed.start > s.removed.start

Delta(h) == Len(h.added.lines) - Len(h.removed.lines)

SameContent(x, h) ==
    /\ x.added.lines = h.added.lines
    /\ x.removed.lines = h.removed.lines

SameFlags(x, h) ==
    /\ x.added.trailing_newline = h.added.trailing_newline
    /\ x.removed.trailing_newline = h.removed.trailing_newline

StartsMovedBy(x, h, d) ==
    /\ x.added.start = h.added.start + d
    /\ x.removed.start = h.removed.start + d

\* The anchors by shape, in the order (removed_before, removed_after,
\* added_before, added_after).
AnchorsByShape(h) ==
    CASE h.removed.lines = <<>> /\ h.added.lines = <<>> -> <<0, 1, 0, 1>>
      [] h.removed.lines # <<>> /\ h.added.lines = <<>> ->
            <<h.removed.start - 1, h.removed.start + Len(h.removed.lines),
              h.removed.start - 1, h.removed.start>>
      [] h.removed.lines = <<>> /\ h.added.lines # <<>> ->
            <<h.added.start - 1, h.added.start,
              h.added.start - 1, h.added.start + Len(h.added.lines)>>
      [] OTHER ->
            <<h.removed.start - 1, h.removed.start + Len(h.removed.lines),
              h.added.start - 1, h.added.start + Len(h.added.lines)>>

\* The interleavable special case, as a property of the pair.
Interleavable(f, s) ==
    \/ PureInsertion(f) /\ PureInsertion(s) /\ AllSame(f.added.lines \o s.added.lines)
    \/ PureDeletion(f) /\ PureDeletion(s) /\ AllSame(f.removed.lines \o s.removed.lines)

\* The gap of an ordering-consistent pair overlaps: the above-side anchor
\* exceeds the below-side anchor.
GapOverlaps(f, s) ==
    IF FirstEarlier(f, s)
    THEN AnchorsByShape(f)[4] > AnchorsByShape(s)[1]
    ELSE AnchorsByShape(s)[2] > AnchorsByShape(f)[3]

NonNegative(h) == h.added.start >= 0 /\ h.removed.start >= 0

----------------------------------------------------------------------------
\* C1: a Commuted pair (r0, r1) is in the original application-order slots:
\* r0 carries the line contents of `first` and r1 those of `second` (read
\* on hunks that each change a line).
C1_OriginalSlots ==
    (out.tag = "Some" /\ Edits(first) /\ Edits(second)) =>
        SameContent(out.pair[1], first) /\ SameContent(out.pair[2], second)

\* C1 as amended: a Commuted pair (r0, r1) is in the new application order:
\* r0 is the rewritten form of `second` and r1 the rewritten form of `first`
\* (same removed and added line contents), for both values of first_above.
C1_SwappedSlots ==
    out.tag = "Some" =>
        SameContent(out.pair[1], second) /\ SameContent(out.pair[2], first)

C1_Witness ==
    /\ out.tag = "Some"
    /\ SecondEarlier(first, second)
    /\ first.added.lines # second.added.lines
    /\ first.removed.lines # second.removed.lines

\* C2: two pure insertions whose pooled added lines are all the same line,
\* or two pure deletions whose pooled removed lines are, make commute
\* return Commuted for every combination of their start values (read on
\* hunks that each hold at least one line).
C2_AlwaysCommuted ==
    (Called /\ SameLineRepeated(first, second)) => out.tag = "Some"

\* C3: in every Commuted result no rewritten start is negative, so the
\* cast back to usize never wraps (read on hunks that each change a line).
C3_NeverNegative ==
    (out.tag = "Some" /\ Edits(first) /\ Edits(second)) => NonNegative(out.pair[1]) /\ NonNegative(out.pair[2])

OneTie(f, s) ==
    (f.added.start = s.added.start) # (f.removed.start = s.removed.start)

C5_OffsetBySign ==
    out.tag = "Some" =>
        IF FirstEarlier(first, second)
        THEN /\ StartsMovedBy(out.pair[1], second, -Delta(first))
             /\ StartsMovedBy(out.pair[2], first, 0)
        ELSE /\ StartsMovedBy(out.pair[2], first, Delta(second))
             /\ StartsMovedBy(out.pair[1], second, 0)

C5_Witness ==
    /\ out.tag = "Some"
    /\ FirstEarlier(first, second)
    /\ Delta(first) < 0
    /\ ~Interleavable(first, second)

C7_CannotCommuteIff ==
    (Called /\ (FirstEarlier(first, second) \/ SecondEarlier(first, second))) =>
        /\ out.tag = "None" <=>
              (~Interleavable(first, second) /\ GapOverlaps(first, second))
        /\ (Mixed(first) /\ Mixed(second) /\ FirstEarlier(first, second)
              /\ first.added.start + Len(first.added.lines) > second.removed.start - 1)
              => out.tag = "None"
        /\ (Mixed(first) /\ Mixed(second) /\ SecondEarlier(first, second)
              /\ second.removed.start + Len(second.removed.lines) > first.added.start - 1)
              => out.tag = "None"

C7_Witness ==
    /\ out.tag = "None"
    /\ Mixed(first)
    /\ Mixed(second)
    /\ SecondEarlier(first, second)

\* C8: the anchors a call computes for above and below are the anchors by
\* shape, and computing them overflows for no hunk whose non-empty blocks
\* start at line 1 or later.
AnchoredAs(o, f, s) ==
    o.an # NoAnchors =>
        LET above == IF first_above(f, s) THEN f ELSE s
            below == IF first_above(f, s) THEN s ELSE f
        IN  /\ o.an[1].t = AnchorsByShape(above)
            /\ o.an[2].t = AnchorsByShape(below)
            /\ WellFormed(above) => ~o.an[1].ovf
            /\ WellFormed(below) => ~o.an[2].ovf

C8_AnchorsByShape ==
    /\ AnchoredAs(out, first, second)
    /\ AnchoredAs(swapped, second, first)
    /\ out.tag = "Some" => AnchoredAs(back, out.pair[1], out.pair[2])

C8_Witness ==
    /\ out.an # NoAnchors
    /\ FirstEarlier(first, second)
    /\ PureDeletion(first) /\ ~PureInsertion(first)
    /\ PureInsertion(second) /\ ~PureDeletion(second)

\* C9: commute undoes itself: when commute(first, second) returns
\* Commuted(x, y) with no negative start, commute(x, y) returns
\* Commuted(first, second) (read on hunks that each change a line).
C9_OwnInverse ==
    (pc = "back" /\ Edits(first) /\ Edits(second) /\ NonNegative(out.pair[1]) /\ NonNegative(out.pair[2])) =>
        back.tag = "Some" /\ back.pair = <<first, second>>

\* C9 as amended: when commute(first, second) returns Commuted(x, y) with
\* no negative start, and commute(x, y) returns Commuted and finds the two
\* hunks in the content order the first call found them in, then it
\* returns (first, second), equal in every field; commute(x, y) can also
\* return CannotCommute, the ordering error or another pair.
OrderKept ==
    FirstEarlier(first, second) = SecondEarlier(out.pair[1], out.pair[2])

C9_InverseWhenOrderKept ==
    (pc = "back" /\ NonNegative(out.pair[1]) /\ NonNegative(out.pair[2])
        /\ back.tag = "Some" /\ OrderKept) =>
        back.pair = <<first, second>>

C9_Witness ==
    /\ pc = "back"
    /\ back.tag = "Some"
    /\ OrderKept
    /\ NonNegative(out.pair[1]) /\ NonNegative(out.pair[2])
    /\ Mixed(first)
    /\ Delta(second) # 0
    /\ out.pair # <<second, first>>

\* C10: commute leaves its inputs as they are; in a Commuted result both
\* hunks keep the lines and the trailing_newline flags of the input they
\* derive from, the content-earlier hunk is returned identical, and the
\* content-later hunk keeps its added.start - removed.start difference.
C10_Result(o, f, s) ==
    o.tag = "Some" =>
        LET above == IF FirstEarlier(f, s) THEN f ELSE s
            below == IF FirstEarlier(f, s) THEN s ELSE f
            new_above == IF FirstEarlier(f, s) THEN o.pair[2] ELSE o.pair[1]
            new_below == IF FirstEarlier(f, s) THEN o.pair[1] ELSE o.pair[2]
        IN  /\ new_above = above
            /\ SameContent(new_below, below)
            /\ SameFlags(new_below, below)
            /\ new_below.added.start - new_below.removed.start
                  = below.added.start - below.removed.start

C10_OnlyStartsChange ==
    [][first' = first /\ second' = second /\ C10_Result(out', first, second)]_vars

C10_Witness ==
    /\ out.tag = "Some"
    /\ SecondEarlier(first, second)
    /\ Delta(second) # 0
    /\ ~first.added.trailing_newline
    /\ second.added.trailing_newline

====
